---- MODULE Spec2Model ----
(***************************************************************************)
(* Job tracker of the career-analysis backend (routes/chat.py) driving the *)
(* analysis manager (agents/analysis_manager.py) and the video runner      *)
(* (youtube_agent/main.py, youtube_agent/youtube.py).                      *)
(*                                                                         *)
(* Request handlers are atomic steps; a background worker thread advances  *)
(* one progress callback / pipeline stage per step, so handlers and        *)
(* workers interleave between any two writes of the shared status record.  *)
(* One call of update_analysis_status is one atomic write of the record.   *)
(*                                                                         *)
(* The helpers of the pipeline are checked on their own, each under its    *)
(* own specification: the retry loop and the JSON extractor of             *)
(* TavilyScp/tavily_web_s.py (RetrySpec, ExtractSpec), the per-skill       *)
(* analysis of youtube_agent/youtube.py (AnalyzeSpec), consecutive runs of *)
(* its run_analysis (YtSpec) and the external requests of one run, one by  *)
(* one (RequestSpec).                                                      *)
(***************************************************************************)
EXTENDS Integers, Sequences, FiniteSets, TLC

\* ------------------------------------------------------------------ bounds
\* number of worker threads start_analysis may launch in one behaviour
MaxRuns == 2

Workers == 1..MaxRuns

\* ------------------------------------------------------- python-ish values
NoneStr == "None"
NoneInt == 0 - 1
NoPath == [kind |-> "none", name |-> <<>>]

PathOf(name) == [kind |-> "path", name |-> name]

\* find_json_files returns a dict {file name: Path}, never a bare path
DictOf(name) == [kind |-> "dict", name |-> name]

\* truthiness of a result_file value: None / False are falsy, a non-empty
\* string and a non-empty dict are truthy
Truthy(rf) == rf.kind # "none"

\* ------------------------------------------------------------ role strings
Letters == {"t", "T", "d", "D", "a", "A"}

Upper(c) == CASE c = "t" -> "T" [] c = "d" -> "D" [] c = "a" -> "A" [] OTHER -> c

Lower(c) == CASE c = "T" -> "t" [] c = "D" -> "d" [] c = "A" -> "a" [] OTHER -> c

\* str.title(): first letter of every word upper case, the rest lower case
Title(s) ==
    [i \in 1..Len(s) |->
        IF i = 1 \/ s[i - 1] \notin Letters THEN Upper(s[i]) ELSE Lower(s[i])]

\* str.replace(' ', '_')
ReplaceSpaces(s) == [i \in 1..Len(s) |-> IF s[i] = " " THEN "_" ELSE s[i]]

Suffix == <<"_comprehensive_analysis.json">>

\* "Data Analyst", written with the three-character alphabet of the model
DefaultRole == <<"D", " ", "A">>

\* the skills lists a start request may carry
SkillInputs == {<<>>, << <<"t">> >>, << <<"d", " ", "a">> >>}

\* analysis_manager.py:71
UserRole(skills) == Title(IF Len(skills) > 0 THEN skills[1] ELSE DefaultRole)

\* youtube.py:511 / youtube_agent/main.py:483 : name of the file the run writes
OutputFilename(role) == ReplaceSpaces(role) \o Suffix

\* analysis_manager.py:91 : name the fallback lookup searches for
FallbackFilename(role) == role \o Suffix

RoleSet == {UserRole(s) : s \in SkillInputs}

FileNames == {OutputFilename(r) : r \in RoleSet} \cup {FallbackFilename(r) : r \in RoleSet}

NoFile == [exists |-> FALSE, run |-> 0, complete |-> FALSE]

\* ------------------------------------------------------------------- state
VARIABLES
    analysis_status,   \* chat.py:13 the process-wide JobStatus record
    analysis_result,   \* chat.py:22
    files,             \* file system below the working directory
    pc,                \* position of every worker thread
    skills,            \* argument of run_analysis_workflow, per worker
    exc,               \* exception in flight / caught, per worker
    yt_exc,            \* exception run_scraper swallowed, per worker
    yt_result_path,    \* analysis_manager.py:74, per worker
    result_file,       \* analysis_manager.py:82, per worker
    result,            \* analysis_manager.py:103, per worker
    nstarted,          \* threads launched so far
    response           \* what the step just taken returned to its HTTP client
                       \* (NoResponse after a step of a worker thread)

vars == <<analysis_status, analysis_result, files, pc, skills, exc, yt_exc,
          yt_result_path, result_file, result, nstarted, response>>

wvars == <<skills, exc, yt_exc, yt_result_path, result_file, result>>

\* ---------------------------------------------- state of _call_gemini_with_retry
VARIABLES
    max_retries,       \* tavily_web_s.py:56 parameter
    initial_delay,     \* tavily_web_s.py:56 parameter
    call_outcomes,     \* what the n-th generate_content call of this prompt does
    i,                 \* tavily_web_s.py:58 loop variable
    calls,             \* generate_content invocations made so far
    sleeps,            \* the time.sleep arguments so far, in order
    returned,          \* how the call ended: pending, return value or raise
    rpc                \* position inside _call_gemini_with_retry

retry_vars == <<max_retries, initial_delay, call_outcomes, i, calls, sleeps,
                returned, rpc>>

Pending == [kind |-> "pending", value |-> <<>>]

\* the client is not in a call
RetryIdle ==
    /\ max_retries = 0
    /\ initial_delay = 0
    /\ call_outcomes = <<>>
    /\ i = 0
    /\ calls = 0
    /\ sleeps = <<>>
    /\ returned = Pending
    /\ rpc = "idle"

\* -------------------------------------------- state of _extract_json_from_response
VARIABLES
    response_text,     \* tavily_web_s.py:72 argument
    extracted          \* how the call ended: pending, return value or raise

extract_vars == <<response_text, extracted>>

ExtractIdle ==
    /\ response_text = <<>>
    /\ extracted = Pending

\* ------------------------------------------------ state of analyze_skill_with_gemini
VARIABLES
    skill,             \* youtube.py:219 argument
    video_contents,    \* youtube.py:219 argument
    gemini_response,   \* what generate_content does for the prompt (youtube.py:272)
    skill_analysis     \* the SkillAnalysis returned, or pending

analyze_vars == <<skill, video_contents, gemini_response, skill_analysis>>

AnalyzeIdle ==
    /\ skill = ""
    /\ video_contents = <<>>
    /\ gemini_response = Pending
    /\ skill_analysis = Pending

\* ------------------------------------------------------- state of run_analysis
VARIABLES
    role,                    \* youtube.py:499 argument
    yt_skills,               \* youtube.py:499 argument "skills"
    skill_analyses,          \* youtube.py:503
    video_items,             \* youtube.py:351, the items not yet visited
    comprehensive_analysis,  \* youtube.py:508
    json_outputs,            \* the files of json_dir (youtube.py:141)
    output_paths,            \* the output_path each run opened, in order
    runs,                    \* calls of run_analysis so far; the clock of created_at
    ypc                      \* position inside run_analysis

yt_vars == <<role, yt_skills, skill_analyses, video_items,
             comprehensive_analysis, json_outputs, output_paths, runs, ypc>>

NoDocument == [exists |-> FALSE, content |-> <<>>, complete |-> FALSE]

YtIdle ==
    /\ role = <<>>
    /\ yt_skills = <<>>
    /\ skill_analyses = <<>>
    /\ video_items = <<>>
    /\ comprehensive_analysis = Pending
    /\ json_outputs = [n \in {OutputFilename(r) : r \in RoleSet} |-> NoDocument]
    /\ output_paths = <<>>
    /\ runs = 0
    /\ ypc = "idle"

\* ---- the requests of one run of run_analysis, in the order they are made
\* (youtube.py:346-393, 499-508): searches, detail fetches, transcript and
\* description fetches, pacing sleeps and model calls
VARIABLES requests

request_vars == <<requests>>

RequestIdle == requests = <<>>

\* everything outside the job tracker
lib_vars == <<retry_vars, extract_vars, analyze_vars, yt_vars, request_vars>>

LibIdle == RetryIdle /\ ExtractIdle /\ AnalyzeIdle /\ YtIdle /\ RequestIdle

NoResult == [isdict |-> FALSE, data |-> 0, file_path |-> NoPath]

NoSnapshot == [status |-> NoneStr, progress |-> NoneInt, message |-> NoneStr,
               result_file |-> NoPath, error |-> NoneStr]

NoResponse == [op |-> "none", code |-> 0, status |-> NoneStr, data |-> 0,
               file_path |-> NoPath, error |-> NoneStr, snapshot |-> NoSnapshot]

\* chat.py:27-38
update_analysis_status(st, status, progress, message, rf, error) ==
    [status |-> status,
     progress |-> IF progress # NoneInt THEN progress ELSE st.progress,
     message |-> IF message # NoneStr THEN message ELSE st.message,
     result_file |-> IF rf.kind # "none" THEN rf ELSE st.result_file,
     error |-> IF error # NoneStr THEN error ELSE st.error]

\* the job tracker before any request (chat.py:13-22)
TrackerIdle ==
    /\ analysis_status = [status |-> "idle", progress |-> 0, message |-> "",
                          result_file |-> NoPath, error |-> NoneStr]
    /\ analysis_result = NoResult
    /\ files = [n \in FileNames |-> NoFile]
    /\ pc = [w \in Workers |-> "unborn"]
    /\ skills = [w \in Workers |-> <<>>]
    /\ exc = [w \in Workers |-> NoneStr]
    /\ yt_exc = [w \in Workers |-> NoneStr]
    /\ yt_result_path = [w \in Workers |-> NoPath]
    /\ result_file = [w \in Workers |-> NoPath]
    /\ result = [w \in Workers |-> NoResult]
    /\ nstarted = 0
    /\ response = NoResponse

Init == TrackerIdle /\ LibIdle

\* ---------------------------------------------------------------- handlers
\* start_analysis with the guard testing the wrong status literal
start_analysis_wrong_guard(sk) ==
    IF analysis_status.status = "completed"
    THEN /\ response' = [NoResponse EXCEPT !.op = "start", !.code = 400,
                                           !.error = "Analysis is already running"]
         /\ UNCHANGED <<analysis_status, analysis_result, files, pc, wvars, nstarted,
                     lib_vars>>
    ELSE /\ nstarted < MaxRuns
         /\ analysis_result' = NoResult
         /\ analysis_status' = update_analysis_status(analysis_status, "running", 0,
                                    "Starting analysis...", NoPath, NoneStr)
         /\ nstarted' = nstarted + 1
         /\ pc' = [pc EXCEPT ![nstarted + 1] = "wf_start"]
         /\ skills' = [skills EXCEPT ![nstarted + 1] = sk]
         /\ response' = [NoResponse EXCEPT !.op = "start", !.code = 200,
                                           !.status = "started"]
         /\ UNCHANGED <<files, exc, yt_exc, yt_result_path, result_file, result,
                     lib_vars>>

\* chat.py:152-174
start_analysis(sk) ==
    IF analysis_status.status = "running"
    THEN /\ response' = [NoResponse EXCEPT !.op = "start", !.code = 400,
                                           !.error = "Analysis is already running"]
         /\ UNCHANGED <<analysis_status, analysis_result, files, pc, wvars, nstarted,
                     lib_vars>>
    ELSE /\ nstarted < MaxRuns
         /\ analysis_result' = NoResult
         /\ analysis_status' = update_analysis_status(analysis_status, "running", 0,
                                    "Starting analysis...", NoPath, NoneStr)
         /\ nstarted' = nstarted + 1
         /\ pc' = [pc EXCEPT ![nstarted + 1] = "wf_start"]
         /\ skills' = [skills EXCEPT ![nstarted + 1] = sk]
         /\ response' = [NoResponse EXCEPT !.op = "start", !.code = 200,
                                           !.status = "started"]
         /\ UNCHANGED <<files, exc, yt_exc, yt_result_path, result_file, result,
                     lib_vars>>

\* chat.py:176-180
get_analysis_status ==
    /\ response' =
         IF analysis_status.result_file.kind = "dict"
         THEN \* jsonify cannot serialize the Path objects of the recorded dict
              [NoResponse EXCEPT !.op = "poll", !.code = 500, !.error = "TypeError"]
         ELSE [NoResponse EXCEPT !.op = "poll", !.code = 200,
                                 !.snapshot = analysis_status]
    /\ UNCHANGED <<analysis_status, analysis_result, files, pc, wvars, nstarted,
                     lib_vars>>

\* chat.py:182-208
get_analysis_result ==
    LET rf == analysis_status.result_file
        status == analysis_status.status
    IN
    /\ response' =
         IF Truthy(rf)
         THEN IF rf.kind = "dict"
              THEN \* os.path.exists(dict) raises TypeError, caught at line 207
                   [NoResponse EXCEPT !.op = "result", !.code = 500,
                                      !.status = "error", !.error = "TypeError"]
              ELSE IF files[rf.name].exists
              THEN IF files[rf.name].complete
                   THEN [NoResponse EXCEPT !.op = "result", !.code = 200,
                                           !.status = "completed",
                                           !.data = files[rf.name].run,
                                           !.file_path = rf]
                   ELSE \* json.load of a truncated file raises, caught at line 207
                        [NoResponse EXCEPT !.op = "result", !.code = 500,
                                           !.status = "error",
                                           !.error = "JSONDecodeError"]
              ELSE IF analysis_result.isdict
                   THEN [NoResponse EXCEPT !.op = "result", !.code = 200,
                                           !.status = status,
                                           !.data = analysis_result.data,
                                           !.file_path =
                                               IF Truthy(analysis_result.file_path)
                                               THEN analysis_result.file_path ELSE rf]
                   ELSE [NoResponse EXCEPT !.op = "result", !.code = 400,
                                           !.status = status,
                                           !.error = analysis_status.error,
                                           !.file_path = rf]
         ELSE IF analysis_result.isdict
              THEN [NoResponse EXCEPT !.op = "result", !.code = 200,
                                      !.status = status,
                                      !.data = analysis_result.data,
                                      !.file_path =
                                          IF Truthy(analysis_result.file_path)
                                          THEN analysis_result.file_path ELSE rf]
              ELSE [NoResponse EXCEPT !.op = "result", !.code = 400,
                                      !.status = status,
                                      !.error = analysis_status.error,
                                      !.file_path = rf]
    /\ UNCHANGED <<analysis_status, analysis_result, files, pc, wvars, nstarted,
                     lib_vars>>

\* ------------------------------------------------------- background worker
Report(status, progress, message, rf, error) ==
    analysis_status' = update_analysis_status(analysis_status, status, progress,
                                               message, rf, error)

Goto(w, label) == pc' = [pc EXCEPT ![w] = label]

\* a step of a worker thread answers no HTTP request
Silent == response' = NoResponse /\ UNCHANGED lib_vars

\* the thread's frame is gone when it ends: its arguments and locals are
\* dropped
Return(w) ==
    /\ skills' = [skills EXCEPT ![w] = <<>>]
    /\ exc' = [exc EXCEPT ![w] = NoneStr]
    /\ yt_exc' = [yt_exc EXCEPT ![w] = NoneStr]
    /\ yt_result_path' = [yt_result_path EXCEPT ![w] = NoPath]
    /\ result_file' = [result_file EXCEPT ![w] = NoPath]
    /\ result' = [result EXCEPT ![w] = NoResult]

Raise(w, msg) ==
    /\ exc' = [exc EXCEPT ![w] = msg]
    /\ Goto(w, "m_except")

\* chat.py:45
wf_start(w) ==
    /\ pc[w] = "wf_start"
    /\ Report("running", 5, "Starting analysis...", NoPath, NoneStr)
    /\ Goto(w, "m_init")
    /\ Silent
    /\ UNCHANGED <<analysis_result, files, wvars, nstarted>>

\* analysis_manager.py:39-40
m_init(w) ==
    /\ pc[w] = "m_init"
    /\ Report("running", 0, "Initializing analysis.", NoPath, NoneStr)
    /\ Goto(w, "m_web")
    /\ Silent
    /\ UNCHANGED <<analysis_result, files, wvars, nstarted>>

\* analysis_manager.py:51-54 ; tavily_web_s.py:194 indexes skills[0], which
\* raises IndexError on an empty list; the scraper's other calls may fail too
m_web(w) ==
    /\ pc[w] = "m_web"
    /\ Report("running", 20, "Running web scraper.", NoPath, NoneStr)
    /\ IF Len(skills[w]) = 0
       THEN Raise(w, "IndexError")
       ELSE \E ok \in BOOLEAN :
               IF ok THEN /\ Goto(w, "m_update")
                          /\ UNCHANGED exc
                     ELSE Raise(w, "WebScraperError")
    /\ Silent
    /\ UNCHANGED <<analysis_result, files, skills, yt_exc, yt_result_path,
                   result_file, result, nstarted>>

\* analysis_manager.py:59-62 ; update_skills_from_modules catches its errors
m_update(w) ==
    /\ pc[w] = "m_update"
    /\ Report("running", 50, "Updating skills from modules.", NoPath, NoneStr)
    /\ Goto(w, "m_yt")
    /\ Silent
    /\ UNCHANGED <<analysis_result, files, wvars, nstarted>>

YtOutcomes == {"precheck_false", "sys_exit", "input_raises", "orchestrator_raises", "open"}

\* analysis_manager.py:67-74 and youtube_agent/main.py:420-483 up to the
\* open(output_path, "w") of youtube.py:514
m_yt(w) ==
    /\ pc[w] = "m_yt"
    /\ Report("running", 80, "Running YouTube agent...", NoPath, NoneStr)
    /\ \E o \in YtOutcomes :
         CASE o = "precheck_false" ->
                \* main.py:432-442 : run_scraper returns False
                /\ yt_result_path' = [yt_result_path EXCEPT ![w] = NoPath]
                /\ Goto(w, "m_find")
                /\ UNCHANGED <<files, skills, exc, yt_exc, result_file, result>>
           [] o = "sys_exit" ->
                \* main.py:61,70 : load_config ends the thread with SystemExit,
                \* which no "except Exception" clause catches
                /\ Goto(w, "exited")
                /\ Return(w)
                /\ UNCHANGED files
           [] o = "input_raises" ->
                \* main.py:459 : input() outside the try block raises EOFError
                /\ Raise(w, "EOFError")
                /\ UNCHANGED <<files, skills, yt_exc, yt_result_path, result_file, result>>
           [] o = "orchestrator_raises" ->
                \* main.py:502-505 : the orchestrator's exception is logged and
                \* run_scraper returns False
                /\ yt_exc' = [yt_exc EXCEPT ![w] = "OrchestratorError"]
                /\ yt_result_path' = [yt_result_path EXCEPT ![w] = NoPath]
                /\ Goto(w, "m_find")
                /\ UNCHANGED <<files, skills, exc, result_file, result>>
           [] o = "open" ->
                \* youtube.py:514 : open(..., "w") truncates the file
                /\ files' = [files EXCEPT ![OutputFilename(UserRole(skills[w]))] =
                                [exists |-> TRUE, run |-> w, complete |-> FALSE]]
                /\ Goto(w, "yt_dump")
                /\ UNCHANGED <<skills, exc, yt_exc, yt_result_path, result_file, result>>
    /\ Silent
    /\ UNCHANGED <<analysis_result, nstarted>>

\* youtube.py:515 json.dump, then youtube_agent/main.py:483-497
yt_dump(w) ==
    /\ pc[w] = "yt_dump"
    /\ \E ok \in BOOLEAN :
         IF ok
         THEN /\ files' = [files EXCEPT ![OutputFilename(UserRole(skills[w]))].complete = TRUE]
              /\ yt_result_path' = [yt_result_path EXCEPT ![w] =
                                       PathOf(OutputFilename(UserRole(skills[w])))]
              /\ UNCHANGED yt_exc
         ELSE \* the write fails part-way: the exception is swallowed at
              \* main.py:502-505 and the truncated file stays
              /\ yt_exc' = [yt_exc EXCEPT ![w] = "OSError"]
              /\ yt_result_path' = [yt_result_path EXCEPT ![w] = NoPath]
              /\ UNCHANGED files
    /\ Goto(w, "m_find")
    /\ Silent
    /\ UNCHANGED <<analysis_status, analysis_result, skills, exc, result_file,
                   result, nstarted>>

\* jsonF.py:6-34 : a dict of the files found, FileNotFoundError when none
find_json_files(fs, filename) ==
    IF filename \in DOMAIN fs /\ fs[filename].exists
    THEN DictOf(filename)
    ELSE NoPath

\* analysis_manager.py:79-92
m_find(w) ==
    /\ pc[w] = "m_find"
    /\ Report("running", 95, "Finding results...", NoPath, NoneStr)
    /\ IF Truthy(yt_result_path[w]) /\ files[yt_result_path[w].name].exists
       THEN /\ result_file' = [result_file EXCEPT ![w] = yt_result_path[w]]
            /\ Goto(w, "m_done")
            /\ UNCHANGED exc
       ELSE LET found == find_json_files(files, FallbackFilename(UserRole(skills[w])))
            IN  IF Truthy(found)
                THEN /\ result_file' = [result_file EXCEPT ![w] = found]
                     /\ Goto(w, "m_done")
                     /\ UNCHANGED exc
                ELSE /\ Raise(w, "FileNotFoundError")
                     /\ UNCHANGED result_file
    /\ Silent
    /\ UNCHANGED <<analysis_result, files, skills, yt_exc, yt_result_path,
                   result, nstarted>>

\* analysis_manager.py:94-95
m_done(w) ==
    /\ pc[w] = "m_done"
    /\ Report("completed", 100, "Analysis completed!", result_file[w], NoneStr)
    /\ Goto(w, "m_load")
    /\ Silent
    /\ UNCHANGED <<analysis_result, files, wvars, nstarted>>

\* analysis_manager.py:100-107
m_load(w) ==
    /\ pc[w] = "m_load"
    /\ IF result_file[w].kind = "dict"
       THEN \* open(dict) raises TypeError
            /\ Raise(w, "TypeError")
            /\ UNCHANGED result
       ELSE IF ~ files[result_file[w].name].complete
       THEN \* json.load of a file another thread is rewriting
            /\ Raise(w, "JSONDecodeError")
            /\ UNCHANGED result
       ELSE /\ result' = [result EXCEPT ![w] =
                             [isdict |-> TRUE,
                              data |-> files[result_file[w].name].run,
                              file_path |-> result_file[w]]]
            /\ Goto(w, "wf_result")
            /\ UNCHANGED exc
    /\ Silent
    /\ UNCHANGED <<analysis_status, analysis_result, files, skills, yt_exc,
                   yt_result_path, result_file, nstarted>>

\* the manager's handler reporting the error without a progress value
m_except_keeps_progress(w) ==
    /\ pc[w] = "m_except"
    /\ Report("error", NoneInt, "", NoPath, exc[w])
    /\ Goto(w, "wf_except")
    /\ Silent
    /\ UNCHANGED <<analysis_result, files, wvars, nstarted>>

\* analysis_manager.py:109-112
m_except(w) ==
    /\ pc[w] = "m_except"
    /\ Report("error", 0, "", NoPath, exc[w])
    /\ Goto(w, "wf_except")
    /\ Silent
    /\ UNCHANGED <<analysis_result, files, wvars, nstarted>>

\* chat.py:49-56
wf_result(w) ==
    /\ pc[w] = "wf_result"
    /\ analysis_result' = result[w]
    /\ LET rf0 == analysis_status.result_file
           rf == IF ~ Truthy(rf0) /\ result[w].isdict THEN result[w].file_path ELSE rf0
       IN  IF ~ Truthy(rf0) /\ result[w].isdict /\ Truthy(rf)
           THEN analysis_status' = update_analysis_status(analysis_status,
                                       analysis_status.status, NoneInt, "", rf, NoneStr)
           ELSE UNCHANGED analysis_status
    /\ Goto(w, "wf_complete")
    /\ Silent
    /\ UNCHANGED <<files, wvars, nstarted>>

\* chat.py:58
wf_complete(w) ==
    /\ pc[w] = "wf_complete"
    /\ Report("completed", 100, "Analysis completed.", NoPath, NoneStr)
    /\ Goto(w, "done")
    /\ Return(w)
    /\ Silent
    /\ UNCHANGED <<analysis_result, files, nstarted>>

\* chat.py:59-60
wf_except(w) ==
    /\ pc[w] = "wf_except"
    /\ Report("error", 0, "Analysis failed.", NoPath, exc[w])
    /\ Goto(w, "done")
    /\ Return(w)
    /\ Silent
    /\ UNCHANGED <<analysis_result, files, nstarted>>

\* chat.py:40-60 with analysis_manager.py:27-112 inlined
run_analysis_workflow(w) ==
    \/ wf_start(w)
    \/ m_init(w)
    \/ m_web(w)
    \/ m_update(w)
    \/ m_yt(w)
    \/ yt_dump(w)
    \/ m_find(w)
    \/ m_done(w)
    \/ m_load(w)
    \/ m_except(w)
    \/ wf_result(w)
    \/ wf_complete(w)
    \/ wf_except(w)

StartStep == \E sk \in SkillInputs : start_analysis(sk)

WorkerStep == \E w \in Workers : run_analysis_workflow(w)

Next ==
    \/ StartStep
    \/ get_analysis_status
    \/ get_analysis_result
    \/ WorkerStep

Spec == Init /\ [][Next]_vars

\* the worker threads are scheduled fairly; request handlers need not arrive
FairSpec == Spec /\ \A w \in Workers : WF_vars(run_analysis_workflow(w))

Active(w) == pc[w] \notin {"unborn", "done", "exited"}

\* -------------------------------------------------------------------- C1
\* C1: at most one worker thread is executing run_analysis_workflow /
\* run_comprehensive_analysis in any reachable state.
C1_AtMostOneActiveRun == Cardinality({w \in Workers : Active(w)}) <= 1

\* -------------------------------------------------------------------- C2
\* C2: a start request handled while status = running answers "Analysis is
\* already running", launches no worker and changes neither the JobStatus
\* record nor the stored analysis_result (nor anything but the response).
C2_RejectedStartChangesNothing ==
    [][(analysis_status.status = "running" /\ StartStep) =>
          /\ response'.op = "start"
          /\ response'.code = 400
          /\ response'.error = "Analysis is already running"
          /\ analysis_status' = analysis_status
          /\ analysis_result' = analysis_result
          /\ pc' = pc
          /\ nstarted' = nstarted
          /\ files' = files]_vars

\* a start request was rejected in the middle of a run
C2_Witness ==
    /\ response.op = "start"
    /\ response.code = 400
    /\ analysis_status.status = "running"
    /\ analysis_status.progress = 50
    /\ \E w \in Workers : pc[w] = "m_yt"

\* -------------------------------------------------------------------- C3
\* C3: a start request accepted from idle, completed or error leaves the
\* record with status running, progress 0, error null and result_file null.
C3_AcceptedStartResets ==
    [][(analysis_status.status # "running" /\ StartStep) =>
          /\ analysis_status'.status = "running"
          /\ analysis_status'.progress = 0
          /\ analysis_status'.error = NoneStr
          /\ analysis_status'.result_file = NoPath]_vars

\* -------------------------------------------------------------------- C4
\* C4: the status changes only idle/completed/error -> running by an accepted
\* start and running -> completed / running -> error by the worker; completed
\* and error do not change again until a new start is accepted.
C4_StatusStateMachine ==
    [][analysis_status'.status # analysis_status.status =>
          \/ /\ analysis_status.status \in {"idle", "completed", "error"}
             /\ analysis_status'.status = "running"
             /\ StartStep
          \/ /\ analysis_status.status = "running"
             /\ analysis_status'.status \in {"completed", "error"}
             /\ WorkerStep]_vars

\* -------------------------------------------------------------------- C5
\* C5: no run leaves the status at running forever: once no worker thread is
\* executing any more, the status is not running (so a start is accepted).
C5_NoRunLeftRunning ==
    (\A w \in Workers : ~ Active(w)) => analysis_status.status # "running"

\* -------------------------------------------------------------------- C6
\* C6: whenever status = completed, progress = 100 and result_file is the
\* path of an existing output file.
C6_CompletedCarriesFile ==
    analysis_status.status = "completed" =>
        /\ analysis_status.progress = 100
        /\ analysis_status.result_file.kind = "path"
        /\ files[analysis_status.result_file.name].exists

\* -------------------------------------------------------------------- C7
\* C7 as stated: the manager's exception handler leaves status = error with
\* the message recorded and progress at the value last reported.
C7_ErrorKeepsProgress ==
    [][\A w \in Workers : m_except(w) =>
          /\ analysis_status'.status = "error"
          /\ analysis_status'.error = exc[w]
          /\ analysis_status'.progress = analysis_status.progress]_vars

\* C7 as amended: each of the two exception handlers of the worker sets
\* status = error, records the exception's message and resets progress to 0,
\* and from the handlers the worker only runs to its end (no second attempt).
C7_ErrorResetsProgress ==
    [][\A w \in Workers :
          /\ (m_except(w) \/ wf_except(w)) =>
                /\ analysis_status'.status = "error"
                /\ analysis_status'.error = exc[w]
                /\ analysis_status'.progress = 0
          /\ pc[w] = "m_except" => pc'[w] \in {"m_except", "wf_except"}
          /\ pc[w] = "wf_except" => pc'[w] \in {"wf_except", "done"}
          /\ pc[w] = "done" => pc'[w] = "done"]_vars

\* a run that failed at the 95 % milestone has ended with progress 0
C7_Witness ==
    \E w \in Workers :
        /\ pc[w] = "done"
        /\ analysis_status.status = "error"
        /\ analysis_status.error = "FileNotFoundError"
        /\ analysis_status.message = "Analysis failed."
        /\ analysis_status.progress = 0

\* -------------------------------------------------------------------- C8
\* C8: when the video orchestrator failed with message m during a run, the
\* step that ends that run leaves status = error and error = m.
C8_OrchestratorMessageRecorded ==
    [][\A w \in Workers :
          (yt_exc[w] # NoneStr /\ pc[w] # "done" /\ pc'[w] = "done") =>
              /\ analysis_status'.status = "error"
              /\ analysis_status'.error = yt_exc[w]]_vars

\* -------------------------------------------------------------------- C9
\* C9: whenever the recorded result file exists it holds one run's complete
\* serialization.
C9_RecordedFileComplete ==
    (/\ analysis_status.result_file.kind = "path"
     /\ files[analysis_status.result_file.name].exists)
        => files[analysis_status.result_file.name].complete

\* ------------------------------------------------------------------- C10
\* C10: get_analysis_result returns the file's content exactly when a result
\* file path is recorded and the file exists, otherwise only the current
\* status and recorded error; it never changes the JobStatus record.
C10_FetchResult ==
    [][get_analysis_result =>
          LET rf == analysis_status.result_file
              has == rf.kind = "path" /\ files[rf.name].exists
          IN  /\ analysis_status' = analysis_status
              /\ has => /\ response'.data = files[rf.name].run
                        /\ response'.data # 0
              /\ ~ has => /\ response'.data = 0
                          /\ response'.status = analysis_status.status
                          /\ response'.error = analysis_status.error]_vars

\* ==================================================================
\* TavilyWebScraper._call_gemini_with_retry (tavily_web_s.py:56-70)
\* ==================================================================

\* largest max_retries a call is made with (3 is the default)
MaxRetries == 3

\* values of initial_delay a call is made with (5 is the default)
Delays == {1, 5}

\* a prompt is never sent more often than max_retries times, so the outcome
\* of call MaxRetries + 1 is the one a further retry would have met
MaxCalls == MaxRetries + 1

RateLimit == "ResourceExhausted"

\* what one generate_content call can do: answer, raise
\* exceptions.ResourceExhausted, raise any other Exception
CallOutcomes == {"text", RateLimit, "Exception"}

RECURSIVE Pow2(_)
Pow2(n) == IF n = 0 THEN 1 ELSE 2 * Pow2(n - 1)

RECURSIVE Sum(_)
Sum(s) == IF s = <<>> THEN 0 ELSE Head(s) + Sum(Tail(s))

\* response.text of the n-th call's answer
TextOf(n) == <<"text", n>>

\* the empty string
EmptyStr == <<>>

Returns(v) == [kind |-> "return", value |-> v]

Raises(e) == [kind |-> "raise", value |-> e]

RetryInit ==
    /\ TrackerIdle
    /\ ExtractIdle
    /\ AnalyzeIdle
    /\ YtIdle
    /\ RequestIdle
    /\ max_retries \in 1..MaxRetries
    /\ initial_delay \in Delays
    /\ call_outcomes \in [1..MaxCalls -> CallOutcomes]
    /\ i = 0
    /\ calls = 0
    /\ sleeps = <<>>
    /\ returned = Pending
    /\ rpc = "for"

\* variant (not the code): every exception is retried after a backoff
generate_content_retries_any_error ==
    /\ rpc = "for"
    /\ i < max_retries
    /\ calls' = calls + 1
    /\ IF call_outcomes[calls + 1] = "text"
       THEN /\ returned' = Returns(TextOf(calls + 1))
            /\ rpc' = "returned"
       ELSE /\ rpc' = "except_rate_limit"
            /\ UNCHANGED returned
    /\ UNCHANGED <<max_retries, initial_delay, call_outcomes, i, sleeps>>

\* tavily_web_s.py:58-61, 65-67 : one loop iteration up to the except clause
generate_content ==
    /\ rpc = "for"
    /\ i < max_retries
    /\ calls' = calls + 1
    /\ CASE call_outcomes[calls + 1] = "text" ->
              /\ returned' = Returns(TextOf(calls + 1))
              /\ rpc' = "returned"
         [] call_outcomes[calls + 1] = RateLimit ->
              /\ rpc' = "except_rate_limit"
              /\ UNCHANGED returned
         [] OTHER ->
              /\ returned' = Returns(EmptyStr)
              /\ rpc' = "returned"
    /\ UNCHANGED <<max_retries, initial_delay, call_outcomes, i, sleeps>>

\* variant (not the code): the exponent is one too large
backoff_exponent_off_by_one ==
    /\ rpc = "except_rate_limit"
    /\ sleeps' = Append(sleeps, initial_delay * Pow2(i + 1))
    /\ i' = i + 1
    /\ rpc' = "for"
    /\ UNCHANGED <<max_retries, initial_delay, call_outcomes, calls, returned>>

\* variant of backoff: no sleep after the last attempt
backoff_skips_last_sleep ==
    /\ rpc = "except_rate_limit"
    /\ sleeps' = IF i = max_retries - 1 THEN sleeps
                 ELSE Append(sleeps, initial_delay * Pow2(i))
    /\ i' = i + 1
    /\ rpc' = "for"
    /\ UNCHANGED <<max_retries, initial_delay, call_outcomes, calls, returned>>

\* tavily_web_s.py:62-64 : delay = initial_delay * 2**i ; time.sleep(delay)
backoff ==
    /\ rpc = "except_rate_limit"
    /\ sleeps' = Append(sleeps, initial_delay * Pow2(i))
    /\ i' = i + 1
    /\ rpc' = "for"
    /\ UNCHANGED <<max_retries, initial_delay, call_outcomes, calls, returned>>

\* tavily_web_s.py:68-69 : the loop ran out
max_retries_exceeded ==
    /\ rpc = "for"
    /\ i >= max_retries
    /\ returned' = Returns(EmptyStr)
    /\ rpc' = "returned"
    /\ UNCHANGED <<max_retries, initial_delay, call_outcomes, i, calls, sleeps>>

RetryNext ==
    \/ generate_content /\ UNCHANGED <<vars, extract_vars, analyze_vars, yt_vars, request_vars>>
    \/ backoff /\ UNCHANGED <<vars, extract_vars, analyze_vars, yt_vars, request_vars>>
    \/ max_retries_exceeded /\ UNCHANGED <<vars, extract_vars, analyze_vars, yt_vars, request_vars>>

\* the call is synchronous: once entered it runs on
RetrySpec == RetryInit /\ [][RetryNext]_retry_vars /\ WF_retry_vars(RetryNext)

\* the first k calls are rate limited and call k + 1 answers
RateLimitedThenText(k) ==
    /\ \A n \in 1..k : call_outcomes[n] = RateLimit
    /\ call_outcomes[k + 1] = "text"

\* initial_delay * 2^0, ..., initial_delay * 2^(k-1)
BackoffSleeps(k) == [j \in 1..k |-> initial_delay * Pow2(j - 1)]

\* ------------------------------------------------------------------- C13
\* C13: when the first k calls raise a rate-limit error and call k + 1
\* answers (k retries, k up to max_retries), the call returns the text of
\* call k + 1 and has slept exactly initial_delay*2^0 .. initial_delay*2^(k-1)
\* in that order.
C13_RetryThenSuccess ==
    rpc = "returned" =>
        \A k \in 0..max_retries :
            RateLimitedThenText(k) =>
                /\ returned = Returns(TextOf(k + 1))
                /\ sleeps = BackoffSleeps(k)

\* ------------------------------------------------------------------- C14
\* C14: a call that raises an error other than a rate-limit error makes
\* _call_gemini_with_retry return the empty string at once: no sleep is
\* added, nothing is raised, and nothing more happens after the return.
C14_OtherErrorReturnsEmpty ==
    [][/\ (rpc = "for" /\ i < max_retries
              /\ call_outcomes[calls + 1] = "Exception") =>
            /\ returned' = Returns(EmptyStr)
            /\ rpc' = "returned"
            /\ sleeps' = sleeps
            /\ calls' = calls + 1
       /\ rpc = "returned" => UNCHANGED retry_vars]_retry_vars

\* a call ended by another error after two rate-limited attempts
C14_Witness ==
    /\ rpc = "returned"
    /\ calls = 3
    /\ call_outcomes[1] = RateLimit
    /\ call_outcomes[2] = RateLimit
    /\ call_outcomes[3] = "Exception"
    /\ returned = Returns(EmptyStr)
    /\ Len(sleeps) = 2

\* ------------------------------------------------------------------- C15
\* C15: every call of _call_gemini_with_retry returns, and the sum of its
\* backoff sleeps never exceeds initial_delay * (2^max_retries - 1).
C15_BoundedTotalSleep ==
    /\ [](Sum(sleeps) <= initial_delay * (Pow2(max_retries) - 1))
    /\ <>(rpc = "returned")

\* the defaults, every attempt rate limited: 5 + 10 + 20 = 35
C15_Witness ==
    /\ rpc = "returned"
    /\ max_retries = 3
    /\ initial_delay = 5
    /\ sleeps = <<5, 10, 20>>
    /\ Sum(sleeps) = 35

\* ==================================================================
\* TavilyWebScraper._extract_json_from_response (tavily_web_s.py:72-89)
\* ==================================================================
\* A text is a sequence of tokens: the fence openers and closers, line ends,
\* blanks, a non-JSON word, and the tokens of a small JSON grammar.
\* three backticks followed by the word json, and three backticks alone
FenceJson == "<fence>json"
Fence == "<fence>"
NL == "\n"
CR == "\r"
SP == " "

\* an array nested deeper than the interpreter's recursion limit, written as
\* one token: valid JSON on which json.loads raises RecursionError
DeepArray == "[[[...]]]"

IsSpace(t) == t \in {SP, NL, CR}

\* the three backticks that end the pattern also match the head of an
\* opening fence
StartsWithFence(t) == t \in {Fence, FenceJson}

RECURSIVE SkipSpace(_, _)
SkipSpace(s, p) == IF p <= Len(s) /\ IsSpace(s[p]) THEN SkipSpace(s, p + 1) ELSE p

\* JSON values: <<"num">>, <<"object">>, <<"list", v1, ..., vn>>
Num == <<"num">>
EmptyObject == <<"object">>

Parsed(v, next) == [err |-> NoneStr, value |-> v, next |-> next]

Failed(e) == [err |-> e, value |-> <<>>, next |-> 0]

\* the scanner of json.loads: one value starting at token p
RECURSIVE ParseValue(_, _), ParseElements(_, _, _)
ParseValue(s, p0) ==
    LET p == SkipSpace(s, p0) IN
    IF p > Len(s) THEN Failed("JSONDecodeError")
    ELSE IF s[p] = "1" THEN Parsed(Num, p + 1)
    ELSE IF s[p] = "{}" THEN Parsed(EmptyObject, p + 1)
    ELSE IF s[p] = DeepArray THEN Failed("RecursionError")
    ELSE IF s[p] = "["
         THEN LET q == SkipSpace(s, p + 1) IN
              IF q <= Len(s) /\ s[q] = "]"
              THEN Parsed(<<"list">>, q + 1)
              ELSE ParseElements(s, p + 1, <<"list">>)
    ELSE Failed("JSONDecodeError")

ParseElements(s, p, acc) ==
    LET r == ParseValue(s, p) IN
    IF r.err # NoneStr THEN r
    ELSE LET q == SkipSpace(s, r.next) IN
         IF q > Len(s) THEN Failed("JSONDecodeError")
         ELSE IF s[q] = "," THEN ParseElements(s, q + 1, Append(acc, r.value))
         ELSE IF s[q] = "]" THEN Parsed(Append(acc, r.value), q + 1)
         ELSE Failed("JSONDecodeError")

\* json.loads(s): the value, or the exception it raises
json_loads(s) ==
    LET r == ParseValue(s, 1) IN
    IF r.err # NoneStr THEN Raises(r.err)
    ELSE IF SkipSpace(s, r.next) <= Len(s) THEN Raises("JSONDecodeError")
    ELSE Returns(r.value)

\* str.strip()
RECURSIVE Strip(_)
Strip(s) ==
    IF s = <<>> THEN s
    ELSE IF IsSpace(Head(s)) THEN Strip(Tail(s))
    ELSE IF IsSpace(s[Len(s)]) THEN Strip(SubSeq(s, 1, Len(s) - 1))
    ELSE s

\* re.search(<fence>json\n(.*\n)<fence>, s, re.DOTALL): the leftmost opening
\* fence with its line end, then the longest group that ends in a line end
\* directly before three backticks
FenceStarts(s) == {p \in 1..Len(s) : s[p] = FenceJson /\ p < Len(s) /\ s[p + 1] = NL}

GroupEnds(s, p) ==
    {q \in (p + 2)..Len(s) : s[q] = NL /\ q < Len(s) /\ StartsWithFence(s[q + 1])}

Min(S) == CHOOSE x \in S : \A y \in S : x <= y

Max(S) == CHOOSE x \in S : \A y \in S : x >= y

NoMatch == [found |-> FALSE, group |-> <<>>]

re_search(s) ==
    IF FenceStarts(s) = {} THEN NoMatch
    ELSE LET p == Min(FenceStarts(s)) IN
         IF GroupEnds(s, p) = {} THEN NoMatch
         ELSE [found |-> TRUE, group |-> SubSeq(s, p + 2, Max(GroupEnds(s, p)))]

\* the JSON texts a response may carry, and texts that are not JSON
JsonTexts ==
    {<<"1">>, <<"{}">>, <<"[", "]">>, <<"[", "1", "]">>,
     <<"[", "1", ",", SP, "1", "]">>, <<"[", NL, "[", "1", "]", NL, "]">>,
     <<DeepArray>>}

Garbage == {<<>>, <<"x">>, <<"[", "1">>, <<"1", SP, "x">>}

\* how the model may write the line of the opening fence, the line end before
\* the closing fence, and what surrounds the block
OpenLines == {<<FenceJson, NL>>, <<FenceJson, SP, NL>>, <<FenceJson, CR, NL>>}

CloseLines == {<<NL, Fence>>, <<Fence>>, <<NL, SP, Fence>>, <<CR, NL, Fence>>}

Before == {<<>>, <<"x", NL>>}

After == {<<>>, <<NL, "x">>, <<NL, FenceJson, NL, "1", NL, Fence>>}

\* a response consisting of a json fenced block around body b
FencedBlock(b) == <<FenceJson, NL>> \o b \o <<NL, Fence>>

ResponseTexts ==
    JsonTexts \cup Garbage \cup
    {pre \o op \o b \o cl \o post :
        pre \in Before, op \in OpenLines, b \in JsonTexts \cup Garbage,
        cl \in CloseLines, post \in After}

ExtractInit ==
    /\ TrackerIdle
    /\ RetryIdle
    /\ AnalyzeIdle
    /\ YtIdle
    /\ RequestIdle
    /\ response_text \in ResponseTexts
    /\ extracted = Pending

\* json.loads inside try / except json.JSONDecodeError: return {}
loads_or_empty(s) ==
    LET r == json_loads(s) IN
    IF r.kind = "raise" /\ r.value = "JSONDecodeError" THEN Returns(EmptyObject) ELSE r

\* tavily_web_s.py:72-89
extract_json_from_response ==
    /\ extracted = Pending
    /\ LET json_match == re_search(response_text) IN
       extracted' = IF json_match.found
                    THEN loads_or_empty(Strip(json_match.group))
                    ELSE loads_or_empty(response_text)
    /\ UNCHANGED <<response_text, vars, retry_vars, analyze_vars, yt_vars, request_vars>>

ExtractNext == extract_json_from_response

ExtractSpec == ExtractInit /\ [][ExtractNext]_extract_vars

\* ------------------------------------------------------------------- C16
\* C16: for every JSON text v, the response made of a json fenced block
\* around v and the bare text v both parse to the value of v; a response
\* without a fence that is not JSON, or a fenced block whose interior is not
\* JSON, yields the empty object; the call never raises.
C16_ExtractRoundTrip ==
    extracted # Pending =>
        /\ extracted.kind = "return"
        /\ \A v \in JsonTexts :
              response_text \in {v, FencedBlock(v)} =>
                  /\ json_loads(v).kind = "return"
                  /\ extracted = json_loads(v)
        /\ \A g \in Garbage :
              response_text \in {g, FencedBlock(g)} =>
                  extracted = Returns(EmptyObject)

\* ==================================================================
\* YouTubeSkillsScraper.analyze_skill_with_gemini (youtube.py:219-344)
\* ==================================================================
\* A line is a sequence of tokens: section labels, words, the dash, blanks.
SectionLabels == {"SUBSKILLS:", "KEY_TAKEAWAYS:", "IMPORTANT_INFO:", "SUMMARY:"}

\* str.upper() of one token
UpperToken(t) ==
    CASE t = "subskills:" -> "SUBSKILLS:"
      [] t = "summary:" -> "SUMMARY:"
      [] OTHER -> t

\* label in line.upper()
InUpper(label, line) == \E p \in 1..Len(line) : UpperToken(line[p]) = label

\* line.startswith("-")
StartsWithDash(line) == line # <<>> /\ Head(line) = "-"

\* youtube.py:276-285 : the parser's locals before the first line
ParseStart ==
    [subskills |-> <<>>, key_takeaways |-> <<>>, important_info |-> <<>>,
     summary |-> <<>>,
     in_subskills |-> FALSE, in_key_takeaways |-> FALSE,
     in_important_info |-> FALSE, in_summary |-> FALSE]

\* the four assignments that follow a header test
EnterSection(st, a, b, c, d) ==
    [st EXCEPT !.in_subskills = a, !.in_key_takeaways = b,
               !.in_important_info = c, !.in_summary = d]

\* line[1:].strip()
BulletText(line) == Strip(Tail(line))

\* youtube.py:287-322 : one iteration of the loop over the lines
ParseLine(st, raw) ==
    LET line == Strip(raw) IN
    IF InUpper("SUBSKILLS:", line) THEN EnterSection(st, TRUE, FALSE, FALSE, FALSE)
    ELSE IF InUpper("KEY_TAKEAWAYS:", line) THEN EnterSection(st, FALSE, TRUE, FALSE, FALSE)
    ELSE IF InUpper("IMPORTANT_INFO:", line) THEN EnterSection(st, FALSE, FALSE, TRUE, FALSE)
    ELSE IF InUpper("SUMMARY:", line) THEN EnterSection(st, FALSE, FALSE, FALSE, TRUE)
    ELSE IF st.in_subskills /\ StartsWithDash(line)
         THEN IF BulletText(line) # <<>>
              THEN [st EXCEPT !.subskills = Append(@, BulletText(line))]
              ELSE st
    ELSE IF st.in_key_takeaways /\ StartsWithDash(line)
         THEN IF BulletText(line) # <<>>
              THEN [st EXCEPT !.key_takeaways = Append(@, BulletText(line))]
              ELSE st
    ELSE IF st.in_important_info /\ StartsWithDash(line)
         THEN IF BulletText(line) # <<>>
              THEN [st EXCEPT !.important_info = Append(@, BulletText(line))]
              ELSE st
    ELSE IF st.in_summary /\ line # <<>>
         THEN [st EXCEPT !.summary = @ \o line \o <<SP>>]
    ELSE st

\* youtube.py:287 : for line in lines
RECURSIVE ParseLines(_, _)
ParseLines(st, lines) ==
    IF lines = <<>> THEN st ELSE ParseLines(ParseLine(st, Head(lines)), Tail(lines))

AnalysisFailed == <<"Analysis failed - please review manually">>

SkillAnalysis(sk, videos, subskills, key_takeaways, important_info, summary) ==
    [skill |-> sk, videos |-> videos, subskills |-> subskills,
     key_takeaways |-> key_takeaways, important_info |-> important_info,
     summary |-> summary]

\* what generate_content / response.text can do: raise, or answer with lines
GeminiRaises == [kind |-> "raise", lines |-> <<>>]

GeminiText(lines) == [kind |-> "text", lines |-> lines]

\* variant (not the code): no early return for an empty video list
AnalyzeSkill_without_early_return(sk, videos, answer) ==
    IF answer.kind = "raise"
    THEN SkillAnalysis(sk, videos, <<AnalysisFailed>>, <<AnalysisFailed>>,
                       <<AnalysisFailed>>,
                       <<"Gemini analysis failed for ", sk,
                         ". Videos were processed successfully.">>)
    ELSE LET st == ParseLines(ParseStart, answer.lines) IN
         SkillAnalysis(sk, videos, st.subskills, st.key_takeaways,
                       st.important_info, Strip(st.summary))

\* youtube.py:219-344 as a function of its arguments and of the model's answer
AnalyzeSkill(sk, videos, answer) ==
    IF videos = <<>>
    THEN SkillAnalysis(sk, <<>>, <<>>, <<>>, <<>>,
                       <<"No video content available for ", sk>>)
    ELSE IF answer.kind = "raise"
    THEN SkillAnalysis(sk, videos, <<AnalysisFailed>>, <<AnalysisFailed>>,
                       <<AnalysisFailed>>,
                       <<"Gemini analysis failed for ", sk,
                         ". Videos were processed successfully.">>)
    ELSE LET st == ParseLines(ParseStart, answer.lines) IN
         SkillAnalysis(sk, videos, st.subskills, st.key_takeaways,
                       st.important_info, Strip(st.summary))

HasVideos(sa) == sa.videos # <<>>

\* lines a model answer is made of (content.split always yields a line)
AnswerLines ==
    {<<"SUBSKILLS:">>, <<"KEY_TAKEAWAYS:">>, <<"IMPORTANT_INFO:">>, <<"SUMMARY:">>,
     <<"-", SP, "X">>, <<SP, "-", SP, "Y", SP>>, <<"-">>, <<>>,
     <<"hello", SP, "world">>,
     <<"-", SP, "core", SP, "subskills:", SP, "X">>,
     <<"In", SP, "summary:", SP, "Y">>,
     <<"SUBSKILLS:", SP, "SUMMARY:">>, <<"SUMMARY:", SP, "SUBSKILLS:">>,
     <<"1.", SP, "Z">>}

\* longest answer enumerated line by line
MaxLines == 3

\* the answer of the documented example
ExampleAnswer ==
    << <<"SUBSKILLS:">>, <<"-", SP, "X">>, <<"-", SP, "Y">>, <<>>,
       <<"SUMMARY:">>, <<"hello", SP, "world">> >>

Answers ==
    {ExampleAnswer} \cup UNION {[1..n -> AnswerLines] : n \in 1..MaxLines}

VideoContent(id, transcript) == [video_id |-> id, transcript |-> transcript]

AnalyzeInit ==
    /\ TrackerIdle
    /\ RetryIdle
    /\ ExtractIdle
    /\ YtIdle
    /\ RequestIdle
    /\ skill = "s1"
    /\ video_contents \in {<<>>, <<VideoContent("v1", <<"transcript">>)>>}
    /\ gemini_response \in {GeminiRaises} \cup {GeminiText(a) : a \in Answers}
    /\ skill_analysis = Pending

analyze_skill_with_gemini ==
    /\ skill_analysis = Pending
    /\ skill_analysis' = Returns(AnalyzeSkill(skill, video_contents, gemini_response))
    /\ UNCHANGED <<skill, video_contents, gemini_response, vars, retry_vars,
                   extract_vars, yt_vars, request_vars>>

AnalyzeNext == analyze_skill_with_gemini

AnalyzeSpec == AnalyzeInit /\ [][AnalyzeNext]_analyze_vars

\* --- what the section format says the answer holds
\* a header line: nothing but one section label
IsHeaderLine(raw) == Len(Strip(raw)) = 1 /\ Strip(raw)[1] \in SectionLabels

\* the label of the last header line at or before line n, "" when there is none
RECURSIVE SectionAt(_, _)
SectionAt(lines, n) ==
    IF n = 0 THEN ""
    ELSE IF IsHeaderLine(lines[n]) THEN Strip(lines[n])[1]
    ELSE SectionAt(lines, n - 1)

\* the non-empty bullet texts of the lines that follow a header of that label
RECURSIVE BulletsOf(_, _, _)
BulletsOf(lines, label, n) ==
    IF n = 0 THEN <<>>
    ELSE LET line == Strip(lines[n])
             rest == BulletsOf(lines, label, n - 1)
         IN  IF /\ ~ IsHeaderLine(lines[n])
                /\ SectionAt(lines, n) = label
                /\ StartsWithDash(line)
                /\ BulletText(line) # <<>>
             THEN Append(rest, BulletText(line))
             ELSE rest

\* the non-empty lines that follow a SUMMARY header, joined by single blanks
RECURSIVE SummaryOf(_, _)
SummaryOf(lines, n) ==
    IF n = 0 THEN <<>>
    ELSE LET line == Strip(lines[n])
             rest == SummaryOf(lines, n - 1)
         IN  IF /\ ~ IsHeaderLine(lines[n])
                /\ SectionAt(lines, n) = "SUMMARY:"
                /\ line # <<>>
             THEN IF rest = <<>> THEN line ELSE rest \o <<SP>> \o line
             ELSE rest

Answered ==
    /\ skill_analysis # Pending
    /\ video_contents # <<>>
    /\ gemini_response.kind = "text"

\* ------------------------------------------------------------------- C17
\* C17: the bullet lines that follow a SUBSKILLS / KEY_TAKEAWAYS /
\* IMPORTANT_INFO header end up, in order and without dash and surrounding
\* blanks, in that section's list, and the non-empty lines that follow the
\* SUMMARY header, joined by single blanks, are the summary.
C17_SectionParser ==
    Answered =>
        LET lines == gemini_response.lines
            n == Len(lines)
            sa == skill_analysis.value
        IN  /\ sa.subskills = BulletsOf(lines, "SUBSKILLS:", n)
            /\ sa.key_takeaways = BulletsOf(lines, "KEY_TAKEAWAYS:", n)
            /\ sa.important_info = BulletsOf(lines, "IMPORTANT_INFO:", n)
            /\ sa.summary = SummaryOf(lines, n)

\* ------------------------------------------------------------------- C19
\* C19: when the parse of the model's answer yields no subskill and no key
\* takeaway, the SkillAnalysis returned carries the single analysis-failed
\* entry in each derived list and the video list it was given.
C19_ParseFailurePlaceholders ==
    Answered =>
        LET st == ParseLines(ParseStart, gemini_response.lines)
            sa == skill_analysis.value
        IN  (st.subskills = <<>> /\ st.key_takeaways = <<>>) =>
                /\ sa.subskills = <<AnalysisFailed>>
                /\ sa.key_takeaways = <<AnalysisFailed>>
                /\ sa.important_info = <<AnalysisFailed>>
                /\ sa.videos = video_contents

\* ==================================================================
\* YouTubeSkillsScraper.run_analysis with process_single_skill and
\* generate_comprehensive_analysis (youtube.py:346-393, 414-519)
\* ==================================================================

\* the skills lists run_analysis is called with
RunSkillInputs == {<<>>, <<"s1">>, <<"s2", "s1">>}

\* what search_youtube_videos may return (an empty list also on any failure)
SearchResults == {<<>>, <<"v1">>, <<"v1", "v2">>}

\* the model's answers to the per-skill prompt
SkillAnswers == {GeminiRaises, GeminiText(ExampleAnswer)}

\* the model's answers to the role prompt: raise, empty text, the format asked for
RoleAnswers ==
    {GeminiRaises,
     GeminiText(<< <<>> >>),
     GeminiText(<< <<"IMPORTANT_CONSIDERATIONS:">>, <<"-", SP, "X">>,
                   <<"LEARNING_PATH:">>, <<"1.", SP, "Y">> >>)}

\* re.match(r"^\d+\.", line)
IsNumbered(line) == line # <<>> /\ Head(line) \in {"1.", "2."}

\* youtube.py:456-461 : the parser's locals before the first line
ParseRoleStart ==
    [important_considerations |-> <<>>, learning_path |-> <<>>,
     in_considerations |-> FALSE, in_learning_path |-> FALSE]

\* youtube.py:463-477 : one iteration of the loop over the lines
ParseRoleLine(st, raw) ==
    LET line == Strip(raw) IN
    IF InUpper("IMPORTANT_CONSIDERATIONS:", line)
    THEN [st EXCEPT !.in_considerations = TRUE, !.in_learning_path = FALSE]
    ELSE IF InUpper("LEARNING_PATH:", line)
    THEN [st EXCEPT !.in_considerations = FALSE, !.in_learning_path = TRUE]
    ELSE IF st.in_considerations /\ StartsWithDash(line)
         THEN IF BulletText(line) # <<>>
              THEN [st EXCEPT !.important_considerations = Append(@, BulletText(line))]
              ELSE st
    ELSE IF st.in_learning_path /\ IsNumbered(line)
         THEN IF Strip(Tail(line)) # <<>>
              THEN [st EXCEPT !.learning_path = Append(@, Strip(Tail(line)))]
              ELSE st
    ELSE st

RECURSIVE ParseRoleLines(_, _)
ParseRoleLines(st, lines) ==
    IF lines = <<>> THEN st
    ELSE ParseRoleLines(ParseRoleLine(st, Head(lines)), Tail(lines))

ComprehensiveAnalysis(r, breakdown, considerations, path, now) ==
    [main_role |-> r, skills_breakdown |-> breakdown,
     important_considerations |-> considerations, learning_path |-> path,
     created_at |-> now]

\* youtube.py:414-497 as a function of its arguments, the model's answer and
\* the clock
Synthesize(r, analyses, answer, now) ==
    IF analyses = <<>>
    THEN ComprehensiveAnalysis(r, <<>>, << <<"No skills analyzed">> >>,
                               << <<"No learning path generated">> >>, now)
    ELSE IF answer.kind = "raise"
    THEN ComprehensiveAnalysis(r, analyses, << <<"Comprehensive analysis failed">> >>,
                               << <<"Learning path generation failed">> >>, now)
    ELSE LET st == ParseRoleLines(ParseRoleStart, answer.lines) IN
         ComprehensiveAnalysis(r, analyses, st.important_considerations,
                               st.learning_path, now)

\* first run and rerun
RunNumbers == {1, 2}

YtInit ==
    /\ TrackerIdle
    /\ RetryIdle
    /\ ExtractIdle
    /\ AnalyzeIdle
    /\ YtIdle
    /\ RequestIdle

\* youtube.py:499-503 : run_analysis is entered
run_analysis ==
    /\ ypc \in {"idle", "returned", "raised"}
    /\ runs + 1 \in RunNumbers
    /\ runs' = runs + 1
    /\ \E r \in RoleSet : role' = r
    /\ \E sk \in RunSkillInputs : yt_skills' = sk
    /\ skill_analyses' = <<>>
    /\ comprehensive_analysis' = Pending
    /\ gemini_response' = Pending
    /\ ypc' = "for_skill"
    /\ UNCHANGED <<skill, video_contents, skill_analysis, video_items,
                   json_outputs, output_paths>>

\* youtube.py:504-505, 351-356 : the next skill's search, and the early return
\* of process_single_skill when nothing was found
search_youtube_videos ==
    /\ ypc = "for_skill"
    /\ Len(skill_analyses) < Len(yt_skills)
    /\ LET sk == yt_skills[Len(skill_analyses) + 1] IN
       \E found \in SearchResults :
          /\ skill' = sk
          /\ video_contents' = <<>>
          /\ IF found = <<>>
             THEN /\ skill_analyses' =
                        Append(skill_analyses,
                               SkillAnalysis(sk, <<>>, <<>>, <<>>, <<>>,
                                             <<"No content found">>))
                  /\ UNCHANGED <<video_items, ypc>>
             ELSE /\ video_items' = found
                  /\ ypc' = "for_item"
                  /\ UNCHANGED skill_analyses
    /\ UNCHANGED <<role, yt_skills, comprehensive_analysis, json_outputs,
                   output_paths, runs, gemini_response, skill_analysis>>

\* youtube.py:357-390 : one item: details (None on any failure -> skipped),
\* transcript, VideoContent appended
get_video_details ==
    /\ ypc = "for_item"
    /\ video_items # <<>>
    /\ video_items' = Tail(video_items)
    /\ \E details \in BOOLEAN :
          video_contents' =
              IF details
              THEN Append(video_contents,
                          VideoContent(Head(video_items), <<"transcript">>))
              ELSE video_contents
    /\ UNCHANGED <<skill, gemini_response, skill_analysis, role, yt_skills,
                   skill_analyses, comprehensive_analysis, json_outputs,
                   output_paths, runs, ypc>>

\* youtube.py:393, 506 : analyze_skill_with_gemini and the append
analyze_videos ==
    /\ ypc = "for_item"
    /\ video_items = <<>>
    /\ \E answer \in SkillAnswers :
          skill_analyses' =
              Append(skill_analyses, AnalyzeSkill(skill, video_contents, answer))
    /\ video_contents' = <<>>
    /\ ypc' = "for_skill"
    /\ UNCHANGED <<skill, gemini_response, skill_analysis, role, yt_skills,
                   video_items, comprehensive_analysis, json_outputs,
                   output_paths, runs>>

\* variant (not the code): skills without videos are left out of the breakdown
generate_comprehensive_analysis_drops_empty ==
    /\ ypc = "for_skill"
    /\ Len(skill_analyses) = Len(yt_skills)
    /\ \E answer \in RoleAnswers :
          /\ gemini_response' = IF skill_analyses = <<>> THEN Pending ELSE answer
          /\ comprehensive_analysis' =
                 Returns(Synthesize(role, SelectSeq(skill_analyses, HasVideos),
                                    answer, runs))
    /\ ypc' = "open"
    /\ UNCHANGED <<skill, video_contents, skill_analysis, role, yt_skills,
                   skill_analyses, video_items, json_outputs, output_paths, runs>>

\* youtube.py:508 : the role-level synthesis after the last skill
generate_comprehensive_analysis ==
    /\ ypc = "for_skill"
    /\ Len(skill_analyses) = Len(yt_skills)
    /\ \E answer \in RoleAnswers :
          /\ gemini_response' = IF skill_analyses = <<>> THEN Pending ELSE answer
          /\ comprehensive_analysis' =
                 Returns(Synthesize(role, skill_analyses, answer, runs))
    /\ ypc' = "open"
    /\ UNCHANGED <<skill, video_contents, skill_analysis, role, yt_skills,
                   skill_analyses, video_items, json_outputs, output_paths, runs>>

\* variant (not the code): the file is opened for appending
open_output_path_append ==
    /\ ypc = "open"
    /\ LET output_path == OutputFilename(role) IN
       \/ /\ json_outputs' =
                [json_outputs EXCEPT ![output_path] =
                    [exists |-> TRUE, content |-> @.content, complete |-> FALSE]]
          /\ output_paths' = Append(output_paths, output_path)
          /\ ypc' = "dump"
       \/ /\ ypc' = "raised"
          /\ UNCHANGED <<json_outputs, output_paths>>
    /\ UNCHANGED <<skill, video_contents, gemini_response, skill_analysis, role,
                   yt_skills, skill_analyses, video_items,
                   comprehensive_analysis, runs>>

\* youtube.py:511-514 : open(output_path, "w") truncates the file, or raises
open_output_path ==
    /\ ypc = "open"
    /\ LET output_path == OutputFilename(role) IN
       \/ /\ json_outputs' =
                [json_outputs EXCEPT ![output_path] =
                    [exists |-> TRUE, content |-> <<>>, complete |-> FALSE]]
          /\ output_paths' = Append(output_paths, output_path)
          /\ ypc' = "dump"
       \/ /\ ypc' = "raised"
          /\ UNCHANGED <<json_outputs, output_paths>>
    /\ UNCHANGED <<skill, video_contents, gemini_response, skill_analysis, role,
                   yt_skills, skill_analyses, video_items,
                   comprehensive_analysis, runs>>

\* youtube.py:515-519 : json.dump writes the document and the run returns, or
\* the write fails part-way and the exception leaves run_analysis
json_dump ==
    /\ ypc = "dump"
    /\ LET output_path == OutputFilename(role) IN
       \/ /\ json_outputs' =
                [json_outputs EXCEPT ![output_path] =
                    [exists |-> TRUE,
                     content |-> Append(@.content, comprehensive_analysis.value),
                     complete |-> TRUE]]
          /\ ypc' = "returned"
       \/ /\ ypc' = "raised"
          /\ UNCHANGED json_outputs
    /\ UNCHANGED <<skill, video_contents, gemini_response, skill_analysis, role,
                   yt_skills, skill_analyses, video_items,
                   comprehensive_analysis, output_paths, runs>>

YtNext ==
    \/ run_analysis /\ UNCHANGED <<vars, retry_vars, extract_vars, request_vars>>
    \/ search_youtube_videos /\ UNCHANGED <<vars, retry_vars, extract_vars, request_vars>>
    \/ get_video_details /\ UNCHANGED <<vars, retry_vars, extract_vars, request_vars>>
    \/ analyze_videos /\ UNCHANGED <<vars, retry_vars, extract_vars, request_vars>>
    \/ generate_comprehensive_analysis /\ UNCHANGED <<vars, retry_vars, extract_vars, request_vars>>
    \/ open_output_path /\ UNCHANGED <<vars, retry_vars, extract_vars, request_vars>>
    \/ json_dump /\ UNCHANGED <<vars, retry_vars, extract_vars, request_vars>>

YtSpec == YtInit /\ [][YtNext]_<<yt_vars, analyze_vars>>

\* the documents in the file the current run writes
Persisted == json_outputs[OutputFilename(role)].content

\* ------------------------------------------------------------------- C11
\* C11: when a run has written its file, the skills_breakdown of the
\* persisted document has one SkillAnalysis per input skill, in input order.
C11_OneAnalysisPerSkill ==
    ypc = "returned" =>
        /\ Persisted # <<>>
        /\ LET doc == Persisted[Len(Persisted)] IN
           /\ Len(doc.skills_breakdown) = Len(yt_skills)
           /\ \A n \in 1..Len(yt_skills) :
                 doc.skills_breakdown[n].skill = yt_skills[n]

\* two skills: nothing found for the first, every detail fetch failed for the
\* second
C11_Witness ==
    /\ ypc = "returned"
    /\ yt_skills = <<"s2", "s1">>
    /\ Persisted # <<>>
    /\ Persisted[Len(Persisted)].skills_breakdown[1].summary = <<"No content found">>
    /\ Persisted[Len(Persisted)].skills_breakdown[2].summary =
           <<"No video content available for ", "s1">>

StatesNoContent(sa) ==
    sa.summary \in {<<"No content found">>,
                    <<"No video content available for ", sa.skill>>}

\* ------------------------------------------------------------------- C12
\* C12: every SkillAnalysis with an empty video list has empty subskills,
\* key_takeaways and important_info and a summary saying that there is no
\* content, and the step that produces it goes on with the loop over the
\* skills.
C12_EmptyContentShape ==
    /\ [](\A n \in 1..Len(skill_analyses) :
             LET sa == skill_analyses[n] IN
             sa.videos = <<>> =>
                 /\ sa.subskills = <<>>
                 /\ sa.key_takeaways = <<>>
                 /\ sa.important_info = <<>>
                 /\ StatesNoContent(sa))
    /\ [][(/\ Len(skill_analyses') = Len(skill_analyses) + 1
           /\ skill_analyses'[Len(skill_analyses')].videos = <<>>)
              => ypc' = "for_skill"]_<<yt_vars, analyze_vars>>

\* a first skill whose items all failed their detail fetch, and a second
\* skill processed after it
C12_Witness ==
    /\ Len(skill_analyses) = 2
    /\ skill_analyses[1].videos = <<>>
    /\ skill_analyses[1].summary = <<"No video content available for ", "s2">>
    /\ skill_analyses[2].videos # <<>>

\* the role-level request failed: exception, or empty response
SynthesisFailed ==
    \/ gemini_response = GeminiRaises
    \/ gemini_response = GeminiText(<< <<>> >>)

\* ------------------------------------------------------------------- C18
\* C18: when the role-level request fails (exception or empty response) the
\* ComprehensiveAnalysis still carries the whole skills_breakdown and
\* important_considerations and learning_path are the single-entry
\* placeholders saying that the synthesis failed.
C18_SynthesisFailurePlaceholders ==
    (ypc \in {"open", "dump", "returned"} /\ SynthesisFailed) =>
        LET ca == comprehensive_analysis.value IN
        /\ ca.skills_breakdown = skill_analyses
        /\ ca.important_considerations = << <<"Comprehensive analysis failed">> >>
        /\ ca.learning_path = << <<"Learning path generation failed">> >>

LabelsIn(line) == {l \in SectionLabels : InUpper(l, line)}

\* the label whose occurrence in the line is the rightmost one
LastLabel(line) ==
    LET p == CHOOSE q \in 1..Len(line) :
                 /\ UpperToken(line[q]) \in SectionLabels
                 /\ \A r \in (q + 1)..Len(line) :
                        UpperToken(line[r]) \notin SectionLabels
    IN  UpperToken(line[p])

\* the section whose flag the parser holds
CurrentSection(st) ==
    IF st.in_subskills THEN "SUBSKILLS:"
    ELSE IF st.in_key_takeaways THEN "KEY_TAKEAWAYS:"
    ELSE IF st.in_important_info THEN "IMPORTANT_INFO:"
    ELSE IF st.in_summary THEN "SUMMARY:"
    ELSE ""

\* ------------------------------------------------------------------- C21
\* C21: after the parser has read a line that contains two of the recognized
\* labels, its current section is the one of the label that occurs last in
\* that line.
C21_LastLabelWins ==
    Answered =>
        LET lines == gemini_response.lines IN
        \A n \in 1..Len(lines) :
            Cardinality(LabelsIn(Strip(lines[n]))) >= 2 =>
                CurrentSection(ParseLines(ParseStart, SubSeq(lines, 1, n)))
                    = LastLabel(Strip(lines[n]))

\* a header line proper, or a line that contains no label at all
CleanLine(raw) == IsHeaderLine(raw) \/ LabelsIn(Strip(raw)) = {}

\* the non-empty texts of the bullet lines and of the numbered lines that
\* follow a header of that label
RECURSIVE ListItemsOf(_, _, _)
ListItemsOf(lines, label, n) ==
    IF n = 0 THEN <<>>
    ELSE LET line == Strip(lines[n])
             rest == ListItemsOf(lines, label, n - 1)
         IN  IF /\ ~ IsHeaderLine(lines[n])
                /\ SectionAt(lines, n) = label
                /\ StartsWithDash(line) \/ IsNumbered(line)
                /\ BulletText(line) # <<>>
             THEN Append(rest, BulletText(line))
             ELSE rest

\* ------------------------------------------------------------------- C22
\* C22: in an answer whose lines are headers or label-free content, each
\* list section holds, in order, the texts of the bullet lines and of the
\* numbered lines that follow its header; such lines before the first header
\* are in no list.
C22_BulletAndNumberedItems ==
    (Answered /\ \A n \in 1..Len(gemini_response.lines) :
                     CleanLine(gemini_response.lines[n])) =>
        LET lines == gemini_response.lines
            n == Len(lines)
            sa == skill_analysis.value
        IN  /\ sa.subskills = ListItemsOf(lines, "SUBSKILLS:", n)
            /\ sa.key_takeaways = ListItemsOf(lines, "KEY_TAKEAWAYS:", n)
            /\ sa.important_info = ListItemsOf(lines, "IMPORTANT_INFO:", n)

\* ==================================================================
\* Claims about the exhausted retry loop (RetrySpec)
\* ==================================================================

AllRateLimited == \A n \in 1..max_retries : call_outcomes[n] = RateLimit

\* ------------------------------------------------------------------- C29
\* C29: when every attempt raises a rate-limit error, the model is called
\* exactly max_retries times, each failed attempt (the last one included) is
\* followed at once by its backoff sleep, and the call returns the empty
\* string without raising.
C29_ExhaustedReturnsEmpty ==
    /\ []((rpc = "returned" /\ AllRateLimited) =>
            /\ calls = max_retries
            /\ sleeps = BackoffSleeps(max_retries)
            /\ returned = Returns(EmptyStr))
    /\ [][rpc = "except_rate_limit" =>
            /\ sleeps' = Append(sleeps, initial_delay * Pow2(calls - 1))
            /\ calls' = calls]_retry_vars

\* two attempts allowed, both rate limited: sleeps of 1 and 2, then ""
C29_Witness ==
    /\ rpc = "returned"
    /\ max_retries = 2
    /\ initial_delay = 1
    /\ AllRateLimited
    /\ calls = 2
    /\ sleeps = <<1, 2>>
    /\ returned = Returns(EmptyStr)

\* ==================================================================
\* Claims about the result endpoint, the progress values and the fallback
\* lookup (Spec)
\* ==================================================================

\* ------------------------------------------------------------------- C27
\* C27: whenever get_analysis_result answers completed with data, the job
\* status is completed and the data was written by the run started last.
C27_CompletedIsCurrentRun ==
    [][(/\ response'.op = "result"
        /\ response'.code = 200
        /\ response'.status = "completed") =>
            /\ analysis_status.status = "completed"
            /\ response'.data = nstarted]_vars

\* ------------------------------------------------------------------- C28
\* C28: while a run is in progress, from its accepted start to completed,
\* no step lowers the progress value, and the value stays within 0..100.
C28_ProgressNonDecreasing ==
    [][(/\ analysis_status.status = "running"
        /\ analysis_status'.status \in {"running", "completed"}
        /\ ~ (response'.op = "start" /\ response'.code = 200)) =>
            /\ analysis_status'.progress >= analysis_status.progress
            /\ analysis_status'.progress \in 0..100]_vars

\* ------------------------------------------------------------------- C30
\* C30: when the manager looks for the result, the file name its fallback
\* searches is the name the orchestrator writes for the same role, and a
\* file of that name which exists is found by the fallback.
C30_FallbackNameIsOutputName ==
    \A w \in Workers :
        pc[w] = "m_find" =>
            LET r == UserRole(skills[w]) IN
            /\ FallbackFilename(r) = OutputFilename(r)
            /\ files[OutputFilename(r)].exists =>
                   Truthy(find_json_files(files, FallbackFilename(r)))

\* ==================================================================
\* run_analysis request by request (youtube.py:55-117, 147-217, 346-393,
\* 499-508): which external request is made when, with which outcome.
\* The model's answers are those of YtSpec; writing the file is left to
\* YtSpec.
\* ==================================================================

\* youtube.py:145 : seconds between requests
request_delay == 1

\* youtube.py:92 : len(description) > 100
DescriptionThreshold == 100

\* descriptions of a video, told apart by their length only
Descriptions == {"", "d100", "d101"}

\* len(description)
Length(description) ==
    CASE description = "" -> 0
      [] description = "d100" -> DescriptionThreshold
      [] description = "d101" -> DescriptionThreshold + 1

\* texts the transcript service answers with; "" stands for every failure of
\* extract_with_supadata as well
PrimaryTexts == {EmptyStr, <<"transcript">>}

\* youtube.py:93 : f"Video Description: {description}"
VideoDescription(description) == <<"Video Description: ", description>>

\* one entry of the request log
Event(op, sk, item) ==
    [op |-> op, skill |-> sk, item |-> item, ok |-> TRUE, found |-> <<>>,
     text |-> EmptyStr, delay |-> 0]

Log(e) == requests' = Append(requests, e)

RequestInit ==
    /\ TrackerIdle
    /\ RetryIdle
    /\ ExtractIdle
    /\ AnalyzeIdle
    /\ role \in RoleSet
    /\ yt_skills \in RunSkillInputs
    /\ skill_analyses = <<>>
    /\ video_items = <<>>
    /\ comprehensive_analysis = Pending
    /\ json_outputs = [n \in {OutputFilename(r) : r \in RoleSet} |-> NoDocument]
    /\ output_paths = <<>>
    /\ runs = 1
    /\ ypc = "for_skill"
    /\ RequestIdle

\* youtube.py:504-505, 351-356, 147-176 : the next skill's search; a failed
\* search is an empty list; nothing found is the early return
process_single_skill ==
    /\ ypc = "for_skill"
    /\ Len(skill_analyses) < Len(yt_skills)
    /\ LET sk == yt_skills[Len(skill_analyses) + 1] IN
       \E ok \in BOOLEAN :
       \E found \in IF ok THEN SearchResults ELSE {<<>>} :
          /\ Log([Event("search", sk, "") EXCEPT !.ok = ok, !.found = found])
          /\ skill' = sk
          /\ video_contents' = <<>>
          /\ IF found = <<>>
             THEN /\ skill_analyses' =
                        Append(skill_analyses,
                               SkillAnalysis(sk, <<>>, <<>>, <<>>, <<>>,
                                             <<"No content found">>))
                  /\ UNCHANGED <<video_items, ypc>>
             ELSE /\ video_items' = found
                  /\ ypc' = "for_item"
                  /\ UNCHANGED skill_analyses
    /\ UNCHANGED <<role, yt_skills, comprehensive_analysis, json_outputs,
                   output_paths, runs, gemini_response, skill_analysis>>

\* variant (not the code): a failed detail fetch ends the loop over the items
for_item_breaks_on_failure ==
    /\ ypc = "for_item"
    /\ video_items # <<>>
    /\ \E ok \in BOOLEAN :
          /\ Log([Event("details", skill, Head(video_items)) EXCEPT !.ok = ok])
          /\ IF ok
             THEN /\ ypc' = "transcript"
                  /\ UNCHANGED video_items
             ELSE /\ video_items' = <<>>
                  /\ UNCHANGED ypc
    /\ UNCHANGED <<skill, video_contents, gemini_response, skill_analysis, role,
                   yt_skills, skill_analyses, comprehensive_analysis,
                   json_outputs, output_paths, runs>>

\* youtube.py:357-364, 178-197 : the detail fetch of the next item; on a
\* failure get_video_details returns None and the loop continues with the
\* item after it
for_item ==
    /\ ypc = "for_item"
    /\ video_items # <<>>
    /\ \E ok \in BOOLEAN :
          /\ Log([Event("details", skill, Head(video_items)) EXCEPT !.ok = ok])
          /\ IF ok
             THEN /\ ypc' = "transcript"
                  /\ UNCHANGED video_items
             ELSE /\ video_items' = Tail(video_items)
                  /\ UNCHANGED ypc
    /\ UNCHANGED <<skill, video_contents, gemini_response, skill_analysis, role,
                   yt_skills, skill_analyses, comprehensive_analysis,
                   json_outputs, output_paths, runs>>

\* youtube.py:376, 199-217, 101-108, 55-74 : the primary channel; a non-empty
\* text is the transcript and the item is appended
extract_with_supadata ==
    /\ ypc = "transcript"
    /\ \E text \in PrimaryTexts :
          /\ Log([Event("supadata", skill, Head(video_items)) EXCEPT !.text = text])
          /\ IF text # EmptyStr
             THEN /\ video_contents' =
                        Append(video_contents,
                               VideoContent(Head(video_items), text))
                  /\ ypc' = "sleep"
             ELSE /\ ypc' = "description"
                  /\ UNCHANGED video_contents
    /\ UNCHANGED <<skill, gemini_response, skill_analysis, role, yt_skills,
                   skill_analyses, video_items, comprehensive_analysis,
                   json_outputs, output_paths, runs>>

\* variant (not the code): a description of exactly 100 characters is used
extract_with_youtube_api_description_at_threshold ==
    /\ ypc = "description"
    /\ \E ok \in BOOLEAN :
       \E description \in IF ok THEN Descriptions ELSE {""} :
          /\ Log([Event("description", skill, Head(video_items))
                     EXCEPT !.ok = ok, !.text = <<description>>])
          /\ video_contents' =
                 Append(video_contents,
                        VideoContent(Head(video_items),
                                     IF Length(description) >= DescriptionThreshold
                                     THEN VideoDescription(description)
                                     ELSE EmptyStr))
    /\ ypc' = "sleep"
    /\ UNCHANGED <<skill, gemini_response, skill_analysis, role, yt_skills,
                   skill_analyses, video_items, comprehensive_analysis,
                   json_outputs, output_paths, runs>>

\* youtube.py:110-117, 76-99, 378-387 : the fallback channel (the key is
\* configured, main.py:437); the description is used when the fetch worked
\* and it has more than 100 characters; the item is appended in every case
extract_with_youtube_api_description ==
    /\ ypc = "description"
    /\ \E ok \in BOOLEAN :
       \E description \in IF ok THEN Descriptions ELSE {""} :
          /\ Log([Event("description", skill, Head(video_items))
                     EXCEPT !.ok = ok, !.text = <<description>>])
          /\ video_contents' =
                 Append(video_contents,
                        VideoContent(Head(video_items),
                                     IF Length(description) > DescriptionThreshold
                                     THEN VideoDescription(description)
                                     ELSE EmptyStr))
    /\ ypc' = "sleep"
    /\ UNCHANGED <<skill, gemini_response, skill_analysis, role, yt_skills,
                   skill_analyses, video_items, comprehensive_analysis,
                   json_outputs, output_paths, runs>>

\* youtube.py:390 : await asyncio.sleep(self.request_delay), then the next item
asyncio_sleep ==
    /\ ypc = "sleep"
    /\ Log([Event("sleep", skill, Head(video_items)) EXCEPT !.delay = request_delay])
    /\ video_items' = Tail(video_items)
    /\ ypc' = "for_item"
    /\ UNCHANGED <<skill, video_contents, gemini_response, skill_analysis, role,
                   yt_skills, skill_analyses, comprehensive_analysis,
                   json_outputs, output_paths, runs>>

\* youtube.py:393, 506, 219-230 : the skill-level model call (none when no
\* item was kept) and the append of its SkillAnalysis
await_analyze_skill_with_gemini ==
    /\ ypc = "for_item"
    /\ video_items = <<>>
    /\ IF video_contents = <<>>
       THEN /\ skill_analyses' =
                  Append(skill_analyses, AnalyzeSkill(skill, <<>>, GeminiRaises))
            /\ UNCHANGED requests
       ELSE \E answer \in SkillAnswers :
               /\ Log([Event("model", skill, "")
                          EXCEPT !.ok = (answer.kind # "raise")])
               /\ skill_analyses' =
                      Append(skill_analyses,
                             AnalyzeSkill(skill, video_contents, answer))
    /\ video_contents' = <<>>
    /\ ypc' = "for_skill"
    /\ UNCHANGED <<skill, gemini_response, skill_analysis, role, yt_skills,
                   video_items, comprehensive_analysis, json_outputs,
                   output_paths, runs>>

\* variant (not the code): the synthesis does not wait for the last skill
await_generate_comprehensive_analysis_early ==
    /\ ypc = "for_skill"
    /\ skill_analyses # <<>> \/ yt_skills = <<>>
    /\ \E answer \in RoleAnswers :
          /\ IF skill_analyses = <<>>
             THEN UNCHANGED requests
             ELSE Log([Event("synthesis", "", "")
                          EXCEPT !.ok = (answer.kind # "raise")])
          /\ gemini_response' = IF skill_analyses = <<>> THEN Pending ELSE answer
          /\ comprehensive_analysis' =
                 Returns(Synthesize(role, skill_analyses, answer, runs))
    /\ ypc' = "returned"
    /\ UNCHANGED <<skill, video_contents, skill_analysis, role, yt_skills,
                   skill_analyses, video_items, json_outputs, output_paths, runs>>

\* youtube.py:508, 414-423 : the role-level model call after the last skill
\* (none when there is no skill)
await_generate_comprehensive_analysis ==
    /\ ypc = "for_skill"
    /\ Len(skill_analyses) = Len(yt_skills)
    /\ \E answer \in RoleAnswers :
          /\ IF skill_analyses = <<>>
             THEN UNCHANGED requests
             ELSE Log([Event("synthesis", "", "")
                          EXCEPT !.ok = (answer.kind # "raise")])
          /\ gemini_response' = IF skill_analyses = <<>> THEN Pending ELSE answer
          /\ comprehensive_analysis' =
                 Returns(Synthesize(role, skill_analyses, answer, runs))
    /\ ypc' = "returned"
    /\ UNCHANGED <<skill, video_contents, skill_analysis, role, yt_skills,
                   skill_analyses, video_items, json_outputs, output_paths, runs>>

RequestNext ==
    \/ process_single_skill /\ UNCHANGED <<vars, retry_vars, extract_vars>>
    \/ for_item /\ UNCHANGED <<vars, retry_vars, extract_vars>>
    \/ extract_with_supadata /\ UNCHANGED <<vars, retry_vars, extract_vars>>
    \/ extract_with_youtube_api_description
           /\ UNCHANGED <<vars, retry_vars, extract_vars>>
    \/ asyncio_sleep /\ UNCHANGED <<vars, retry_vars, extract_vars>>
    \/ await_analyze_skill_with_gemini
           /\ UNCHANGED <<vars, retry_vars, extract_vars>>
    \/ await_generate_comprehensive_analysis
           /\ UNCHANGED <<vars, retry_vars, extract_vars>>

RequestSpec ==
    RequestInit /\ [][RequestNext]_<<request_vars, yt_vars, analyze_vars>>

\* the logged requests of one kind made for a skill
EventsOf(sk, op) ==
    LET Test(e) == e.op = op /\ e.skill = sk IN SelectSeq(requests, Test)

\* the logged requests of one kind made for an item of a skill
EventsOfItem(sk, op, item) ==
    LET Test(e) == e.item = item IN SelectSeq(EventsOf(sk, op), Test)

ItemsOfEvents(es) == [k \in 1..Len(es) |-> es[k].item]

Succeeded(e) == e.ok

VideoIds(videos) == [k \in 1..Len(videos) |-> videos[k].video_id]

\* ------------------------------------------------------------------- C23
\* C23: a failed search or a failed detail fetch ends neither the skill nor
\* the run: every skill processed has its SkillAnalysis, every discovered
\* item had its detail fetch attempted, in order, and the SkillAnalysis holds
\* exactly the items whose detail fetch succeeded, in discovery order.
C23_FailuresAreSkipped ==
    /\ ypc # "raised"
    /\ \A n \in 1..Len(skill_analyses) :
          LET sk == yt_skills[n]
              search == EventsOf(sk, "search")
              details == EventsOf(sk, "details")
          IN  /\ skill_analyses[n].skill = sk
              /\ Len(search) = 1
              /\ ItemsOfEvents(details) = search[1].found
              /\ VideoIds(skill_analyses[n].videos)
                     = ItemsOfEvents(SelectSeq(details, Succeeded))

\* the first of two discovered items failed its detail fetch, the second one
\* was fetched and is the only content of the skill's analysis
C23_Witness ==
    /\ Len(skill_analyses) >= 1
    /\ LET details == EventsOf(yt_skills[1], "details") IN
       /\ Len(details) = 2
       /\ ~ details[1].ok
       /\ details[2].ok
    /\ VideoIds(skill_analyses[1].videos) = <<"v2">>

\* the text the two channels' logged answers determine for an item
TranscriptOf(sk, item) ==
    LET primary == EventsOfItem(sk, "supadata", item)
        secondary == EventsOfItem(sk, "description", item)
    IN  IF primary[1].text # EmptyStr THEN primary[1].text
        ELSE IF /\ secondary # <<>>
                /\ secondary[1].ok
                /\ Length(secondary[1].text[1]) > DescriptionThreshold
             THEN VideoDescription(secondary[1].text[1])
             ELSE EmptyStr

\* ------------------------------------------------------------------- C24
\* C24: an item's text is the primary channel's text when that is non-empty;
\* otherwise it is the description, and only when the description was fetched
\* and is longer than 100 characters; otherwise it is empty, and the item is
\* kept all the same. The description is only asked for after an empty
\* primary answer.
C24_TranscriptChannels ==
    /\ \A n \in 1..Len(skill_analyses) :
          \A k \in 1..Len(skill_analyses[n].videos) :
              LET vc == skill_analyses[n].videos[k] IN
              vc.transcript = TranscriptOf(yt_skills[n], vc.video_id)
    /\ \A k \in 1..Len(video_contents) :
          video_contents[k].transcript
              = TranscriptOf(skill, video_contents[k].video_id)
    /\ \A p \in 1..Len(requests) :
          requests[p].op = "description" =>
              /\ p > 1
              /\ requests[p - 1].op = "supadata"
              /\ requests[p - 1].item = requests[p].item
              /\ requests[p - 1].text = EmptyStr

\* one skill kept two items: the first with the description of 101
\* characters as its text, the second with an empty text after a description
\* of 100 characters
C24_Witness ==
    /\ Len(skill_analyses) >= 1
    /\ Len(skill_analyses[1].videos) = 2
    /\ skill_analyses[1].videos[1].transcript = VideoDescription("d101")
    /\ skill_analyses[1].videos[2].transcript = EmptyStr
    /\ EventsOfItem(yt_skills[1], "description", "v2")[1].text = <<"d100">>

\* ------------------------------------------------------------------- C25
\* C25: between two detail fetches of the same skill there is a pacing sleep.
C25_SleepBetweenDetailFetches ==
    \A a \in 1..Len(requests) :
        \A b \in (a + 1)..Len(requests) :
            (/\ requests[a].op = "details"
             /\ requests[b].op = "details"
             /\ requests[a].skill = requests[b].skill) =>
                \E c \in (a + 1)..(b - 1) :
                    /\ requests[c].op = "sleep"
                    /\ requests[c].delay = request_delay

\* ------------------------------------------------------------------- C26
\* C26: every request that is made concerns the skill that follows the
\* SkillAnalysis objects produced so far, the analyses are those of the input
\* skills in input order, and the role-level model call is made only when
\* every skill has its SkillAnalysis.
C26_SkillsInSequence ==
    /\ [](\A n \in 1..Len(skill_analyses) : skill_analyses[n].skill = yt_skills[n])
    /\ [][requests' # requests =>
            LET e == requests'[Len(requests')] IN
            IF e.op = "synthesis"
            THEN Len(skill_analyses) = Len(yt_skills)
            ELSE /\ Len(skill_analyses) < Len(yt_skills)
                 /\ e.skill = yt_skills[Len(skill_analyses) + 1]
       ]_<<request_vars, yt_vars, analyze_vars>>

\* a run over two skills that made requests for both and ended with the
\* role-level call
C26_Witness ==
    /\ ypc = "returned"
    /\ yt_skills = <<"s2", "s1">>
    /\ Len(skill_analyses) = 2
    /\ EventsOf("s2", "details") # <<>>
    /\ EventsOf("s1", "details") # <<>>
    /\ requests[Len(requests)].op = "synthesis"

====
